---- MODULE Spec2Model ----
(***************************************************************************)
(* Model of PxTerminalReporter, the pytest terminal reporter of px         *)
(* (crates/px-core/src/core/runtime/run/test_exec/px_pytest_plugin.py).    *)
(*                                                                         *)
(* Python strings that the reporter parses (crash messages, failure text,  *)
(* source lines) are sequences of one-character strings; strings that it   *)
(* only copies (paths, test names) are TLA+ strings.  Wall-clock values    *)
(* (time.time(), durations) are not modelled: no handler branches on them. *)
(***************************************************************************)
EXTENDS Integers, Sequences, FiniteSets, TLC

\* ------------------------------------------------------------------------
\* Bounds
\* ------------------------------------------------------------------------
\* number of events the host delivers in one run
MaxEvents == 3

\* number of events of a run that begins with a collection phase in which one
\* collect report repeats
MaxCollect == 12

\* number of events of a run that begins with plain call-phase reports of
\* one test file
MaxSummary == 6

\* largest line number a crash location names
MaxLineno == 13

\* largest radius of a snippet
MaxContext == 3

\* ------------------------------------------------------------------------
\* Python string primitives used by the reporter
\* ------------------------------------------------------------------------
NL == "\n"

Whitespace == {" ", "\n", "\t", "\r"}

UpperLetters ==
  <<"A","B","C","D","E","F","G","H","I","J","K","L","M","N","O","P","Q","R","S","T","U","V","W","X","Y","Z">>

LowerLetters ==
  <<"a","b","c","d","e","f","g","h","i","j","k","l","m","n","o","p","q","r","s","t","u","v","w","x","y","z">>

UpperToLower ==
  [c \in {UpperLetters[k] : k \in 1..Len(UpperLetters)} |->
     LowerLetters[CHOOSE k \in 1..Len(UpperLetters) : UpperLetters[k] = c]]

\* str.lower()
Lower(s) ==
  [i \in 1..Len(s) |-> IF s[i] \in DOMAIN UpperToLower THEN UpperToLower[s[i]] ELSE s[i]]

\* s[i:i+len(sub)] == sub   (i is one-based here)
MatchAt(s, sub, i) ==
  /\ i >= 1
  /\ i + Len(sub) - 1 <= Len(s)
  /\ \A k \in 1..Len(sub) : s[i + k - 1] = sub[k]

\* positions at which sub occurs in s
Occurrences(s, sub) == {i \in 1..Len(s) : MatchAt(s, sub, i)}

\* sub in s
Contains(s, sub) == Len(sub) = 0 \/ Occurrences(s, sub) # {}

SetMin(S) == CHOOSE x \in S : \A y \in S : x <= y

SetMax(S) == CHOOSE x \in S : \A y \in S : x >= y

\* s[i:]  (one-based i)
Tail_(s, i) == SubSeq(s, i, Len(s))

\* str.strip()
Strip(s) ==
  LET keep == {i \in 1..Len(s) : s[i] \notin Whitespace}
  IN  IF keep = {} THEN <<>> ELSE SubSeq(s, SetMin(keep), SetMax(keep))

\* str.split(sep)[-1]: what follows the last occurrence of sep (all of s if none)
SplitLast(s, sep) ==
  LET occ == Occurrences(s, sep)
  IN  IF occ = {} THEN s ELSE Tail_(s, SetMax(occ) + Len(sep))

\* str.split(sep, 1) when sep occurs in s: <<before, after>> the first occurrence
SplitOnce(s, sep) ==
  LET i == SetMin(Occurrences(s, sep))
  IN  <<SubSeq(s, 1, i - 1), Tail_(s, i + Len(sep))>>

\* str.replace(old, "", 1)
RemoveFirst(s, old) ==
  LET occ == Occurrences(s, old)
  IN  IF occ = {} THEN s
      ELSE SubSeq(s, 1, SetMin(occ) - 1) \o Tail_(s, SetMin(occ) + Len(old))

\* str.replace(old, ""): non-overlapping occurrences, scanning left to right
RECURSIVE RemoveAll(_, _)
RemoveAll(s, old) ==
  LET occ == Occurrences(s, old)
  IN  IF occ = {} THEN s
      ELSE SubSeq(s, 1, SetMin(occ) - 1)
             \o RemoveAll(Tail_(s, SetMin(occ) + Len(old)), old)

\* str.split("\n"): empty pieces are kept
RECURSIVE SplitNL(_)
SplitNL(s) ==
  LET occ == Occurrences(s, <<NL>>)
  IN  IF occ = {} THEN <<s>>
      ELSE <<SubSeq(s, 1, SetMin(occ) - 1)>> \o SplitNL(Tail_(s, SetMin(occ) + 1))

\* str.splitlines(): like split("\n") but without a final empty piece,
\* and [] for the empty string
Splitlines(s) ==
  IF Len(s) = 0 THEN <<>>
  ELSE LET parts == SplitNL(s)
       IN  IF Len(parts[Len(parts)]) = 0 THEN SubSeq(parts, 1, Len(parts) - 1)
           ELSE parts

\* str.rstrip("\n")
RECURSIVE RstripNL(_)
RstripNL(s) ==
  IF Len(s) > 0 /\ s[Len(s)] = NL THEN RstripNL(SubSeq(s, 1, Len(s) - 1)) ELSE s

\* list comprehension [part for part in parts if part.strip()]
RECURSIVE NonBlank(_)
NonBlank(parts) ==
  IF parts = <<>> THEN <<>>
  ELSE (IF Len(Strip(Head(parts))) > 0 THEN <<Head(parts)>> ELSE <<>>)
         \o NonBlank(Tail(parts))

\* ------------------------------------------------------------------------
\* String literals of the reporter
\* ------------------------------------------------------------------------
S_did_not_raise == <<"d","i","d"," ","n","o","t"," ","r","a","i","s","e">>

S_DID_NOT_RAISE == <<"D","I","D"," ","N","O","T"," ","R","A","I","S","E">>

S_assert == <<"a","s","s","e","r","t">>

S_eqeq == <<"=","=">>

S_AssertionError == <<"A","s","s","e","r","t","i","o","n","E","r","r","o","r",":">>

S_expected_exception == <<"e","x","p","e","c","t","e","d"," ","e","x","c","e","p","t","i","o","n">>

S_Expected_ == <<"E","x","p","e","c","t","e","d"," ">>

S_to_be_raised == <<" ","t","o"," ","b","e"," ","r","a","i","s","e","d",","," ","b","u","t"," ","n","o","n","e"," ","w","a","s",".">>

S_Expected_colon == <<"E","x","p","e","c","t","e","d",":"," ">>

S_Actual == <<"\n"," "," "," "," "," ","A","c","t","u","a","l",":"," "," "," ">>

S_test_failed == <<"t","e","s","t"," ","f","a","i","l","e","d">>

\* ------------------------------------------------------------------------
\* The file system the snippet loader reads.  open(path).readlines() either
\* yields the lines (each with its line terminator), raises an OSError
\* (missing file, permission denied) or raises UnicodeDecodeError (bytes that
\* are not UTF-8); UnicodeDecodeError is a ValueError, not an OSError.
\* ------------------------------------------------------------------------
NoFile == "<None>"

TestFiles == {"tests/test_a.py", "tests/test_b.py"}

CrashFiles == {"src/app.py", "src/gone.py", "src/secret.py", "src/latin1.py", "src/ten.py"}

SourceLines ==
  << <<"a","\n">>, <<"b","\n">>, <<"c","\n">>, <<"d","\n">>, <<"e">> >>

\* a file of ten lines, the last one without a newline
TenLines ==
  [k \in 1..10 |->
     <<<<"a", "b", "c", "d", "e", "f", "g", "h", "i", "j">>[k]>>
       \o (IF k < 10 THEN <<"\n">> ELSE <<>>)]

FS ==
  [p \in TestFiles \cup CrashFiles |->
     CASE p = "src/gone.py"   -> [state |-> "missing",     lines |-> <<>>]
       [] p = "src/secret.py" -> [state |-> "denied",      lines |-> <<>>]
       [] p = "src/latin1.py" -> [state |-> "undecodable", lines |-> <<>>]
       [] p = "tests/test_b.py" -> [state |-> "readable", lines |-> SubSeq(SourceLines, 1, 2)]
       [] p = "src/ten.py"    -> [state |-> "readable",    lines |-> TenLines]
       [] OTHER               -> [state |-> "readable",    lines |-> SourceLines]]

\* the exception open()/readlines() raises on a file, "" when it raises none
ReadError(p) ==
  CASE FS[p].state \in {"missing", "denied"} -> "OSError"
    [] FS[p].state = "undecodable"           -> "UnicodeDecodeError"
    [] OTHER                                 -> ""

\* ------------------------------------------------------------------------
\* State of the reporter (PxTerminalReporter.__init__), the output stream it
\* writes, and the record of what the host has delivered so far
\* ------------------------------------------------------------------------
VARIABLES
  is_tty,             \* sys.stdout.isatty(); _tw.hasmarkup is set to the same value
  collected,          \* self.collected
  files,              \* self.files
  current_file,       \* self._current_file
  failures,           \* self.failures
  collection_errors,  \* self.collection_errors
  stats,              \* self.stats
  exitstatus,         \* self.exitstatus
  spinner_index,      \* self.spinner_index
  last_progress_len,  \* self.last_progress_len
  spinner_active,     \* self._spinner_active
  out,                \* what has been written to sys.stdout, in order
  raised,             \* the exception a handler let escape into the host, "" if none
  hist                \* the events received, in order

vars == <<is_tty, collected, files, current_file, failures, collection_errors,
          stats, exitstatus, spinner_index, last_progress_len, spinner_active,
          out, raised, hist>>

StatusNames == {"passed", "failed", "skipped", "error", "xfailed", "xpassed"}

\* report.location[1] when the item reports no line number (None)
NoLine == -1

Max(a, b) == IF a >= b THEN a ELSE b

Min(a, b) == IF a <= b THEN a ELSE b

\* ------------------------------------------------------------------------
\* Failure analysis
\* ------------------------------------------------------------------------
\* hasattr(longrepr, "reprcrash") and longrepr.reprcrash
HasReprcrash(report) ==
  report.longrepr.kind = "exc" /\ report.longrepr.reprcrash.present

\* truth value of report.longrepr: None and "" are false, an object is true
LongreprTruthy(report) ==
  CASE report.longrepr.kind = "none" -> FALSE
    [] report.longrepr.kind = "str"  -> Len(report.longrepr.str) > 0
    [] OTHER                         -> TRUE

\* _failure_message: [exc |-> exception raised or "", val |-> the message]
_failure_message(report) ==
  IF HasReprcrash(report)
  THEN [exc |-> "", val |-> report.longrepr.reprcrash.message]
  ELSE IF report.has_longreprtext
  THEN LET ls == Splitlines(report.longreprtext)
       IN  IF Len(ls) = 0 THEN [exc |-> "IndexError", val |-> <<>>]
           ELSE [exc |-> "", val |-> ls[1]]
  ELSE IF LongreprTruthy(report) THEN [exc |-> "", val |-> report.longrepr.str]
  ELSE [exc |-> "", val |-> S_test_failed]

\* _failure_lineno: [exc, path, lineno]
_failure_lineno(report) ==
  IF HasReprcrash(report)
  THEN [exc |-> "", path |-> report.longrepr.reprcrash.path,
        lineno |-> report.longrepr.reprcrash.lineno]
  ELSE IF report.lineno = NoLine
  THEN [exc |-> "TypeError", path |-> report.path, lineno |-> NoLine]
  ELSE [exc |-> "", path |-> report.path, lineno |-> report.lineno + 1]

\* _load_snippet with the window starting one line late
LoadSnippetStartsLate(path, lineno, context) ==
  IF ReadError(path) = "OSError" THEN [exc |-> "", none |-> TRUE, lines |-> <<>>]
  ELSE IF ReadError(path) # "" THEN [exc |-> ReadError(path), none |-> TRUE, lines |-> <<>>]
  ELSE LET lines == FS[path].lines
           start == Max(0, lineno - context)
           end   == Min(Len(lines), lineno + context)
       IN  [exc |-> "", none |-> FALSE,
            lines |-> [k \in 1..Max(end - start, 0) |->
                         <<start + k, RstripNL(lines[start + k])>>]]

\* _load_snippet: [exc, none |-> the result is None, lines |-> <<number, text>> pairs]
_load_snippet(path, lineno, context) ==
  IF ReadError(path) = "OSError" THEN [exc |-> "", none |-> TRUE, lines |-> <<>>]
  ELSE IF ReadError(path) # "" THEN [exc |-> ReadError(path), none |-> TRUE, lines |-> <<>>]
  ELSE LET lines == FS[path].lines
           start == Max(0, lineno - context - 1)
           end   == Min(Len(lines), lineno + context)
       IN  [exc |-> "", none |-> FALSE,
            lines |-> [k \in 1..Max(end - start, 0) |->
                         <<start + k, RstripNL(lines[start + k])>>]]

\* the rewriting of a non-empty crash message in _assertion_explanation
ExplainSummary(summary) ==
  LET lowered == Lower(summary)
  IN  IF Contains(lowered, S_did_not_raise)
      THEN LET e0 == Strip(SplitLast(summary, S_DID_NOT_RAISE))
               expected == IF Len(e0) = 0 THEN S_expected_exception ELSE e0
           IN  S_Expected_ \o expected \o S_to_be_raised
      ELSE IF Contains(lowered, S_assert) /\ Contains(summary, S_eqeq)
      THEN LET parts == SplitOnce(summary, S_eqeq)
               left  == Strip(RemoveFirst(RemoveAll(parts[1], S_AssertionError), S_assert))
               right == Strip(parts[2])
           IN  S_Expected_colon \o right
                 \o (IF Len(left) > 0 THEN S_Actual \o left ELSE <<>>)
      ELSE Strip(RemoveAll(summary, S_AssertionError))

\* _assertion_explanation: [none |-> the result is None, lines |-> the display lines]
_assertion_explanation(report) ==
  LET summary0 == IF HasReprcrash(report) THEN report.longrepr.reprcrash.message ELSE <<>>
      summary  == IF Len(summary0) > 0 THEN ExplainSummary(summary0) ELSE summary0
  IN  IF Len(summary) = 0 THEN [none |-> TRUE, lines |-> <<>>]
      ELSE [none |-> FALSE, lines |-> NonBlank(SplitNL(summary))]

\* ------------------------------------------------------------------------
\* Output primitives.  Every item written is a record
\*   [op, kind, arg, esc]
\* op = "line" is TerminalWriter.line(text, **markup): esc is the set of
\* markup names that are turned into escape sequences, which the writer does
\* only when hasmarkup is set; op = "write" is a raw sys.stdout.write of a
\* text that contains a carriage return.
\* ------------------------------------------------------------------------
TwLine(hasmarkup, kind, arg, markup) ==
  [op |-> "line", kind |-> kind, arg |-> arg, esc |-> IF hasmarkup THEN markup ELSE {}]

StdoutWrite(kind, arg) ==
  [op |-> "write", kind |-> kind, arg |-> arg, esc |-> {}]

\* len(str(n)) for n >= 0
RECURSIVE Digits(_)
Digits(n) == IF n < 10 THEN 1 ELSE 1 + Digits(n \div 10)

\* sum(self.stats.values())
RECURSIVE SumOver(_, _)
SumOver(st, keys) ==
  IF keys = {} THEN 0
  ELSE LET k == CHOOSE x \in keys : TRUE IN st[k] + SumOver(st, keys \ {k})

StatsTotal(st) == SumOver(st, DOMAIN st)

SpinnerFrames == 10

\* len(line) in _render_progress:
\* "\r{frame} {completed}/{total} • pass:{p} fail:{f} skip:{s} err:{e}" [+ " • {note}"]
ProgressLen(st, coll, note) ==
  LET completed == st["passed"] + st["failed"] + st["skipped"] + st["error"]
                     + st["xfailed"] + st["xpassed"]
  IN  1 + 1 + 1 + Digits(completed) + 1 + (IF coll = 0 THEN 1 ELSE Digits(coll))
        + 8 + Digits(st["passed"]) + 6 + Digits(st["failed"])
        + 6 + Digits(st["skipped"]) + 5 + Digits(st["error"])
        + (IF note = "" THEN 0 ELSE 3 + 10)

\* _render_progress with force overriding the terminal test
RenderProgressForceOverridesTty(st, note, force) ==
  IF ~force /\ (~is_tty \/ ~spinner_active)
  THEN [wrote |-> <<>>, spinner_index |-> spinner_index, last_progress_len |-> last_progress_len]
  ELSE LET frame   == spinner_index % SpinnerFrames
           len     == ProgressLen(st, collected, note)
           padding == Max(last_progress_len - len, 0)
       IN  [wrote |-> <<StdoutWrite("progress", <<frame, len, padding>>)>>,
            spinner_index |-> spinner_index + 1,
            last_progress_len |-> len]

\* _render_progress padding with the whole previous length
RenderProgressPadsPreviousLength(st, note, force) ==
  IF ~is_tty
  THEN [wrote |-> <<>>, spinner_index |-> spinner_index, last_progress_len |-> last_progress_len]
  ELSE IF ~force /\ ~spinner_active
  THEN [wrote |-> <<>>, spinner_index |-> spinner_index, last_progress_len |-> last_progress_len]
  ELSE LET frame   == spinner_index % SpinnerFrames
           len     == ProgressLen(st, collected, note)
           padding == last_progress_len
       IN  [wrote |-> <<StdoutWrite("progress", <<frame, len, padding>>)>>,
            spinner_index |-> spinner_index + 1,
            last_progress_len |-> len]

\* _render_progress without the force parameter's effect
RenderProgressIgnoresForce(st, note, force) ==
  IF ~is_tty \/ ~spinner_active
  THEN [wrote |-> <<>>, spinner_index |-> spinner_index, last_progress_len |-> last_progress_len]
  ELSE LET frame   == spinner_index % SpinnerFrames
           len     == ProgressLen(st, collected, note)
           padding == Max(last_progress_len - len, 0)
       IN  [wrote |-> <<StdoutWrite("progress", <<frame, len, padding>>)>>,
            spinner_index |-> spinner_index + 1,
            last_progress_len |-> len]

\* _render_progress without the advance of the frame index
RenderProgressKeepsFrame(st, note, force) ==
  IF ~is_tty
  THEN [wrote |-> <<>>, spinner_index |-> spinner_index, last_progress_len |-> last_progress_len]
  ELSE IF ~force /\ ~spinner_active
  THEN [wrote |-> <<>>, spinner_index |-> spinner_index, last_progress_len |-> last_progress_len]
  ELSE LET frame   == spinner_index % SpinnerFrames
           len     == ProgressLen(st, collected, note)
           padding == Max(last_progress_len - len, 0)
       IN  [wrote |-> <<StdoutWrite("progress", <<frame, len, padding>>)>>,
            spinner_index |-> spinner_index,
            last_progress_len |-> len]

\* _render_progress that does not look at _spinner_active
RenderProgressIgnoresSpinnerActive(st, note, force) ==
  IF ~is_tty
  THEN [wrote |-> <<>>, spinner_index |-> spinner_index, last_progress_len |-> last_progress_len]
  ELSE LET frame   == spinner_index % SpinnerFrames
           len     == ProgressLen(st, collected, note)
           padding == Max(last_progress_len - len, 0)
       IN  [wrote |-> <<StdoutWrite("progress", <<frame, len, padding>>)>>,
            spinner_index |-> spinner_index + 1,
            last_progress_len |-> len]

\* _render_progress, run on counters st: what it writes and the new
\* spinner_index and last_progress_len
_render_progress(st, note, force) ==
  IF ~is_tty
  THEN [wrote |-> <<>>, spinner_index |-> spinner_index, last_progress_len |-> last_progress_len]
  ELSE IF ~force /\ ~spinner_active
  THEN [wrote |-> <<>>, spinner_index |-> spinner_index, last_progress_len |-> last_progress_len]
  ELSE LET frame   == spinner_index % SpinnerFrames
           len     == ProgressLen(st, collected, note)
           padding == Max(last_progress_len - len, 0)
       IN  [wrote |-> <<StdoutWrite("progress", <<frame, len, padding>>)>>,
            spinner_index |-> spinner_index + 1,
            last_progress_len |-> len]

\* _clear_spinner, run when last_progress_len is lpl
_clear_spinner(lpl, newline) ==
  IF ~is_tty THEN [wrote |-> <<>>, last_progress_len |-> lpl]
  ELSE IF lpl # 0
  THEN [wrote |-> <<StdoutWrite("clear", <<lpl, newline>>)>>, last_progress_len |-> 0]
  ELSE [wrote |-> <<>>, last_progress_len |-> lpl]

\* _status_icon: <<icon, markup>>
_status_icon(status) ==
  IF status \in {"passed", "xpassed"} THEN <<"check", {"green"}>>
  ELSE IF status \in {"skipped", "xfailed"} THEN <<"dot", {"yellow"}>>
  ELSE <<"cross", {"red", "bold"}>>

\* _print_test_result that remembers no file
PrintTestResultForgetsFile(file_path, name, status) ==
  LET header == IF current_file # file_path
                THEN <<TwLine(is_tty, "blank", <<>>, {}),
                       TwLine(is_tty, "file_header", <<file_path>>, {})>>
                ELSE <<>>
      ic == _status_icon(status)
  IN  [wrote |-> header \o <<TwLine(is_tty, "result", <<ic[1], name, status>>, ic[2])>>,
       current_file |-> current_file]

\* _print_test_result: the lines it prints and the new _current_file
_print_test_result(file_path, name, status) ==
  LET header == IF current_file # file_path
                THEN <<TwLine(is_tty, "blank", <<>>, {}),
                       TwLine(is_tty, "file_header", <<file_path>>, {})>>
                ELSE <<>>
      ic == _status_icon(status)
  IN  [wrote |-> header \o <<TwLine(is_tty, "result", <<ic[1], name, status>>, ic[2])>>,
       current_file |-> file_path]

\* ------------------------------------------------------------------------
\* Post-mortem renderers.  A renderer that can let an exception escape
\* yields [exc, wrote]: the exception ("" if none) and what it had written
\* when it stopped.
\* ------------------------------------------------------------------------
SnippetLines(snippet, lineno) ==
  [k \in 1..Len(snippet) |->
     TwLine(is_tty, "snippet_line",
            <<IF snippet[k][1] = lineno THEN "pointer" ELSE "space",
              snippet[k][1], snippet[k][2]>>, {})]

ExplanationLines(explanation) ==
  [k \in 1..Len(explanation) |-> TwLine(is_tty, "explanation_line", <<explanation[k]>>, {})]

\* lines 174-176: blank line, "{idx}) {nodeid}" in bold, blank line
FailureHead(idx, report) ==
  <<TwLine(is_tty, "blank", <<>>, {}),
    TwLine(is_tty, "failure_header", <<idx, report.nodeid>>, {"bold"}),
    TwLine(is_tty, "blank", <<>>, {})>>

\* lines 178-180: the message line, if the message is not empty
MessageLines(message) ==
  IF Len(message) > 0
  THEN <<TwLine(is_tty, "failure_message", <<message>>, {"red"}),
         TwLine(is_tty, "blank", <<>>, {})>>
  ELSE <<>>

\* lines 182-188: the snippet, if there is one
SnippetBlock(loc, snip) ==
  IF ~snip.none /\ Len(snip.lines) > 0
  THEN <<TwLine(is_tty, "snippet_location", <<loc.path, loc.lineno>>, {})>>
         \o SnippetLines(snip.lines, loc.lineno)
         \o <<TwLine(is_tty, "blank", <<>>, {})>>
  ELSE <<>>

\* lines 190-193: the explanation, if there is one
ExplanationBlock(expl) ==
  IF ~expl.none /\ Len(expl.lines) > 0
  THEN <<TwLine(is_tty, "explanation_title", <<>>, {})>> \o ExplanationLines(expl.lines)
  ELSE <<>>

\* _render_single_failure once its four extraction steps have yielded
\* loc, msg, snip and expl: the first step that raises ends the block
FailureBlock(idx, report, loc, msg, snip, expl) ==
  IF loc.exc # "" THEN [exc |-> loc.exc, wrote |-> <<>>]
  ELSE IF msg.exc # "" THEN [exc |-> msg.exc, wrote |-> FailureHead(idx, report)]
  ELSE IF snip.exc # ""
  THEN [exc |-> snip.exc, wrote |-> FailureHead(idx, report) \o MessageLines(msg.val)]
  ELSE [exc |-> "",
        wrote |-> FailureHead(idx, report) \o MessageLines(msg.val)
                    \o SnippetBlock(loc, snip) \o ExplanationBlock(expl)]

_render_single_failure(idx, report) ==
  FailureBlock(idx, report,
               _failure_lineno(report),
               _failure_message(report),
               _load_snippet(_failure_lineno(report).path, _failure_lineno(report).lineno, 2),
               _assertion_explanation(report))

\* list concatenation of the pieces written one after the other
RECURSIVE Concat(_)
Concat(pieces) ==
  IF pieces = <<>> THEN <<>> ELSE Head(pieces) \o Concat(Tail(pieces))

\* the block of every buffered failure, as the loop of _render_failures
\* would render it
FailureBlocks(fs) == [i \in 1..Len(fs) |-> _render_single_failure(i, fs[i])]

\* index of the first block that raises, 0 if none does
FirstRaising(blocks) ==
  IF \E i \in 1..Len(blocks) : blocks[i].exc # ""
  THEN SetMin({i \in 1..Len(blocks) : blocks[i].exc # ""})
  ELSE 0

\* the loop of _render_failures: it runs the blocks in order and stops at
\* the first one that raises
RenderFailureLoop(blocks, stop) ==
  [exc   |-> IF stop = 0 THEN "" ELSE blocks[stop].exc,
   wrote |-> Concat([i \in 1..(IF stop = 0 THEN Len(blocks) ELSE stop) |-> blocks[i].wrote])]

_render_failures(fs) ==
  [exc   |-> RenderFailureLoop(FailureBlocks(fs), FirstRaising(FailureBlocks(fs))).exc,
   wrote |-> <<TwLine(is_tty, "failures_title", <<Len(fs)>>, {"red", "bold"}),
               TwLine(is_tty, "rule", <<11>>, {})>>
               \o RenderFailureLoop(FailureBlocks(fs), FirstRaising(FailureBlocks(fs))).wrote]

CollectionErrorLines(summary) ==
  LET ls == Splitlines(summary)
  IN  [k \in 1..Len(ls) |-> TwLine(is_tty, "collection_error_line", <<ls[k]>>, {"red"})]

RECURSIVE CollectionErrorLoop(_, _)
CollectionErrorLoop(idx, errs) ==
  IF errs = <<>> THEN <<>>
  ELSE <<TwLine(is_tty, "blank", <<>>, {}),
         TwLine(is_tty, "collection_error_header", <<idx, Head(errs)[1]>>, {"bold"})>>
         \o (IF Len(Head(errs)[2]) > 0 THEN CollectionErrorLines(Head(errs)[2]) ELSE <<>>)
         \o CollectionErrorLoop(idx + 1, Tail(errs))

_render_collection_errors(errs) ==
  <<TwLine(is_tty, "collection_errors_title", <<Len(errs)>>, {"red", "bold"}),
    TwLine(is_tty, "rule", <<19>>, {})>> \o CollectionErrorLoop(1, errs)

\* _render_summary with the label derived from the failure counters
RenderSummaryLabelFromCounters(st, exit) ==
  LET total == StatsTotal(st)
      ok == st["failed"] = 0 /\ st["error"] = 0
      status_label == IF ok THEN "PASSED" ELSE "FAILED"
      status_color == (IF ok THEN {"green"} ELSE {"red"}) \cup {"bold"}
  IN  <<TwLine(is_tty, "blank", <<>>, {}),
        TwLine(is_tty, "summary_result", <<status_label, exit>>, status_color),
        TwLine(is_tty, "summary_total", <<total>>, {}),
        TwLine(is_tty, "summary_passed", <<st["passed"]>>, {}),
        TwLine(is_tty, "summary_failed", <<st["failed"]>>, {}),
        TwLine(is_tty, "summary_skipped", <<st["skipped"]>>, {}),
        TwLine(is_tty, "summary_errors", <<st["error"]>>, {})>>

\* _render_summary with a total that leaves out the skipped tests
RenderSummaryTotalWithoutSkipped(st, exit) ==
  LET total == StatsTotal(st) - st["skipped"]
      status_label == IF exit = 0 THEN "PASSED" ELSE "FAILED"
      status_color == (IF exit = 0 THEN {"green"} ELSE {})
                        \cup (IF exit # 0 THEN {"red"} ELSE {}) \cup {"bold"}
  IN  <<TwLine(is_tty, "blank", <<>>, {}),
        TwLine(is_tty, "summary_result", <<status_label, exit>>, status_color),
        TwLine(is_tty, "summary_total", <<total>>, {}),
        TwLine(is_tty, "summary_passed", <<st["passed"]>>, {}),
        TwLine(is_tty, "summary_failed", <<st["failed"]>>, {}),
        TwLine(is_tty, "summary_skipped", <<st["skipped"]>>, {}),
        TwLine(is_tty, "summary_errors", <<st["error"]>>, {})>>

_render_summary(st, exit) ==
  LET total == StatsTotal(st)
      status_label == IF exit = 0 THEN "PASSED" ELSE "FAILED"
      status_color == (IF exit = 0 THEN {"green"} ELSE {})
                        \cup (IF exit # 0 THEN {"red"} ELSE {}) \cup {"bold"}
  IN  <<TwLine(is_tty, "blank", <<>>, {}),
        TwLine(is_tty, "summary_result", <<status_label, exit>>, status_color),
        TwLine(is_tty, "summary_total", <<total>>, {}),
        TwLine(is_tty, "summary_passed", <<st["passed"]>>, {}),
        TwLine(is_tty, "summary_failed", <<st["failed"]>>, {}),
        TwLine(is_tty, "summary_skipped", <<st["skipped"]>>, {}),
        TwLine(is_tty, "summary_errors", <<st["error"]>>, {})>>

\* ------------------------------------------------------------------------
\* Classification of a test report (the if/elif chain of
\* pytest_runtest_logreport): the status ("" for None) and the counters
\* after the increment
\* ------------------------------------------------------------------------
\* the phase test with a fourth phase let through
PhasesWithCollect == {"setup", "call", "teardown", "collect"}

Phases == {"setup", "call", "teardown"}

\* Classify with a pass counted in every phase
ClassifyPassAnyPhase(st, report) ==
  IF report.outcome = "passed"
  THEN [status |-> "passed", stats |-> [st EXCEPT !["passed"] = @ + 1]]
  ELSE IF report.outcome = "skipped"
  THEN [status |-> "skipped", stats |-> [st EXCEPT !["skipped"] = @ + 1]]
  ELSE IF report.outcome = "failed"
  THEN LET status == IF report.when = "call" THEN "failed" ELSE "error"
       IN  [status |-> status, stats |-> [st EXCEPT ![status] = @ + 1]]
  ELSE [status |-> "", stats |-> st]

\* Classify with every failure counted as "failed", whatever the phase
ClassifyFailedAnyPhase(st, report) ==
  IF report.outcome = "passed" /\ report.when = "call"
  THEN [status |-> "passed", stats |-> [st EXCEPT !["passed"] = @ + 1]]
  ELSE IF report.outcome = "skipped"
  THEN [status |-> "skipped", stats |-> [st EXCEPT !["skipped"] = @ + 1]]
  ELSE IF report.outcome = "failed"
  THEN [status |-> "failed", stats |-> [st EXCEPT !["failed"] = @ + 1]]
  ELSE [status |-> "", stats |-> st]

Classify(st, report) ==
  IF report.outcome = "passed" /\ report.when = "call"
  THEN [status |-> "passed", stats |-> [st EXCEPT !["passed"] = @ + 1]]
  ELSE IF report.outcome = "skipped"
  THEN [status |-> "skipped", stats |-> [st EXCEPT !["skipped"] = @ + 1]]
  ELSE IF report.outcome = "failed"
  THEN LET status == IF report.when = "call" THEN "failed" ELSE "error"
       IN  [status |-> status, stats |-> [st EXCEPT ![status] = @ + 1]]
  ELSE [status |-> "", stats |-> st]

\* ------------------------------------------------------------------------
\* Inputs the host can deliver
\* ------------------------------------------------------------------------
T_assert_1_eq_2 == <<"a","s","s","e","r","t"," ","1"," ","=","="," ","2">>

\* the crash message of a pytest.raises block in which nothing was raised
T_did_not_raise_upper ==
  <<"F","a","i","l","e","d",":"," ","D","I","D"," ","N","O","T"," ","R","A","I","S","E"," ","<","c","l","a","s","s"," ","'","V","a","l","u","e","E","r","r","o","r","'",">">>

\* the same message with the phrase in lower case
T_did_not_raise_lower ==
  <<"F","a","i","l","e","d",":"," ","d","i","d"," ","n","o","t"," ","r","a","i","s","e"," ","<","c","l","a","s","s"," ","'","V","a","l","u","e","E","r","r","o","r","'",">">>

\* the phrase with nothing after it
T_did_not_raise_bare ==
  <<"F","a","i","l","e","d",":"," ","D","I","D"," ","N","O","T"," ","R","A","I","S","E">>

\* "assert <left> == <right>"
AssertMessage(left, right) == S_assert \o <<" ">> \o left \o <<" ", "=", "=", " ">> \o right

AssertLefts == {<<"1">>, <<>>}

AssertRights == {<<"2">>}

T_boom == <<"b","o","o","m">>

T_boom_more == <<"b","o","o","m","\n","m","o","r","e">>

T_oops == <<"o","o","p","s">>

NoCrash == [present |-> FALSE, message |-> <<>>, path |-> NoFile, lineno |-> 0]

\* a report whose longrepr is None (what a passed report carries)
DetailPlain ==
  [lineno |-> 0,
   longrepr |-> [kind |-> "none", reprcrash |-> NoCrash, str |-> <<>>],
   has_longreprtext |-> TRUE, longreprtext |-> <<>>]

\* longrepr is an exception representation with structured crash info
DetailCrash(message, path, lineno) ==
  [lineno |-> 0,
   longrepr |-> [kind |-> "exc",
                 reprcrash |-> [present |-> TRUE, message |-> message,
                                path |-> path, lineno |-> lineno],
                 str |-> message],
   has_longreprtext |-> TRUE, longreprtext |-> message]

\* longrepr is an exception representation whose reprcrash is None
DetailExcNoCrash(text) ==
  [lineno |-> 0,
   longrepr |-> [kind |-> "exc", reprcrash |-> NoCrash, str |-> text],
   has_longreprtext |-> TRUE, longreprtext |-> Strip(text)]

\* longrepr is a plain string (an item whose repr_failure returns text);
\* longreprtext is that text, stripped
DetailText(text, lineno) ==
  [lineno |-> lineno,
   longrepr |-> [kind |-> "str", reprcrash |-> NoCrash, str |-> text],
   has_longreprtext |-> TRUE, longreprtext |-> Strip(text)]

\* a report object without a longreprtext attribute
DetailNoTextAttr(kind, text) ==
  [lineno |-> 0,
   longrepr |-> [kind |-> kind, reprcrash |-> NoCrash, str |-> text],
   has_longreprtext |-> FALSE, longreprtext |-> <<>>]

FailureDetails ==
  { DetailCrash(T_assert_1_eq_2, "src/app.py", 3),
    DetailCrash(T_boom, "src/gone.py", 1),
    DetailCrash(T_boom, "src/secret.py", 1),
    DetailCrash(T_boom, "src/latin1.py", 1),
    DetailCrash(<<>>, "src/app.py", 1),
    DetailExcNoCrash(T_boom),
    DetailText(T_boom_more, 0),
    DetailText(<<>>, 0),
    DetailText(T_boom, NoLine),
    DetailNoTextAttr("none", <<>>),
    DetailNoTextAttr("str", T_oops) }

Report(when, outcome, path, name, detail) ==
  [when |-> when, outcome |-> outcome, path |-> path, name |-> name,
   nodeid |-> <<path, name>>, lineno |-> detail.lineno,
   longrepr |-> detail.longrepr,
   has_longreprtext |-> detail.has_longreprtext,
   longreprtext |-> detail.longreprtext]

Whens == {"setup", "call", "teardown", "collect"}

Outcomes == {"passed", "failed", "skipped", "rerun"}

\* every (phase, outcome) pair on one file, and a passing test of a second
\* file with its setup report
Reports ==
  { Report(w, o, "tests/test_a.py", "test_x",
           IF o = "failed" THEN DetailCrash(T_assert_1_eq_2, "src/app.py", 3)
           ELSE DetailPlain) : w \in Whens, o \in Outcomes }
  \cup { Report(w, "passed", "tests/test_b.py", "test_y", DetailPlain) :
           w \in {"setup", "call"} }

\* the reports of a whole run: every recognized (phase, outcome) pair, an
\* unrecognized outcome, an unrecognized phase, and the second file
RunReports ==
  { r \in Reports : \/ r.when \in Phases /\ r.outcome # "rerun"
                    \/ r.when = "call" /\ r.outcome = "rerun"
                    \/ r.when = "collect" /\ r.outcome \in {"passed", "failed"} }

\* failed reports of the call phase, one per kind of failure record
FailureReports ==
  { Report("call", "failed", "tests/test_a.py", "test_x", d) : d \in FailureDetails }

\* failed reports whose crash location is the first, the fifth or the last
\* line of the ten-line file, or a line after its end, and one whose crash
\* location is the first line of a two-line file
SnippetReports ==
  { Report("call", "failed", "tests/test_a.py", "test_x", DetailCrash(T_boom, "src/ten.py", l)) :
      l \in {1, 5, 10, MaxLineno - 1, MaxLineno} }
  \cup { Report("call", "failed", "tests/test_b.py", "test_y",
                 DetailCrash(T_boom, "tests/test_b.py", 1)) }

\* the passed, the failed and the skipped call-phase report of one test
SummaryReports ==
  {r \in Reports : r.when = "call" /\ r.path = "tests/test_a.py"
                     /\ r.outcome \in {"passed", "failed", "skipped"}}

\* the crash messages the explanation heuristic is applied to
ExplainMessages ==
  {AssertMessage(l, r) : l \in AssertLefts, r \in AssertRights}
    \cup {T_did_not_raise_upper, T_did_not_raise_lower, T_did_not_raise_bare, T_boom}

\* failed reports carrying each of these messages as structured crash
\* info, and one without crash info whose failure text is "assert 1 == 2"
ExplainReports ==
  { Report("call", "failed", "tests/test_a.py", "test_x", DetailCrash(m, "src/app.py", 3)) :
      m \in ExplainMessages }
  \cup { Report("call", "failed", "tests/test_a.py", "test_x", DetailText(T_assert_1_eq_2, 0)) }

\* collect reports: [failed, fspath, summary]
CollectReports ==
  { [failed |-> FALSE, fspath |-> "tests/test_a.py", summary |-> <<>>],
    [failed |-> TRUE,  fspath |-> "tests/test_a.py", summary |-> T_boom_more],
    [failed |-> TRUE,  fspath |-> "tests/test_b.py", summary |-> <<>>] }

\* session.items at collection_finish, as the list of the items' paths
ItemLists ==
  { <<"tests/test_a.py">>, <<"tests/test_a.py", "tests/test_a.py", "tests/test_b.py">> }

\* the exit status the host supplies to session_finish
ExitStatuses == {0, 1, 5}

\* ------------------------------------------------------------------------
\* Initial state: PxTerminalReporter.__init__
\* ------------------------------------------------------------------------
Init ==
  /\ is_tty \in BOOLEAN
  /\ collected = 0
  /\ files = {}
  /\ current_file = NoFile
  /\ failures = <<>>
  /\ collection_errors = <<>>
  /\ stats = [k \in StatusNames |-> 0]
  /\ exitstatus = 0
  /\ spinner_index = 0
  /\ last_progress_len = 0
  /\ spinner_active = is_tty
  /\ out = <<>>
  /\ raised = ""
  /\ hist = <<>>

\* the events delivered so far are one collect report, repeated
CollectionPhase ==
  /\ \A i \in 1..Len(hist) : hist[i].kind = "collect_report"
  /\ \A i \in 1..Len(hist) : hist[i].report = hist[1].report

\* the events delivered so far are call-phase reports of one test file
SummaryRun ==
  \A i \in 1..Len(hist) : hist[i].kind = "test_report" /\ hist[i].report \in SummaryReports

\* how many events the host delivers in the run it is in
EventBudget ==
  IF CollectionPhase THEN MaxCollect
  ELSE IF SummaryRun THEN MaxSummary
  ELSE MaxEvents

\* the host delivers one more event: it has delivered fewer than the budget
\* of the run, and no handler has let an exception escape (which aborts the
\* host run)
Deliverable == Len(hist) < EventBudget /\ raised = ""

\* ------------------------------------------------------------------------
\* Event handlers
\* ------------------------------------------------------------------------
pytest_sessionstart ==
  /\ Deliverable
  /\ LET rp == _render_progress(stats, "collecting", TRUE)
     IN  /\ out' = out \o <<TwLine(is_tty, "banner", <<>>, {"cyan", "bold"}),
                            TwLine(is_tty, "root", <<>>, {}),
                            TwLine(is_tty, "config", <<>>, {})>> \o rp.wrote
         /\ spinner_index' = rp.spinner_index
         /\ last_progress_len' = rp.last_progress_len
  /\ hist' = Append(hist, [kind |-> "session_start"])
  /\ UNCHANGED <<is_tty, collected, files, current_file, failures,
                 collection_errors, stats, exitstatus, spinner_active, raised>>

pytest_collection_finish(items) ==
  /\ Deliverable
  /\ collected' = Len(items)
  /\ files' = {items[i] : i \in 1..Len(items)}
  /\ spinner_active' = FALSE
  /\ LET clr == _clear_spinner(last_progress_len, TRUE)
     IN  /\ last_progress_len' = clr.last_progress_len
         /\ out' = out \o clr.wrote
                     \o <<TwLine(is_tty, "collected",
                                 <<collected', IF collected' # 1 THEN "tests" ELSE "test",
                                   Cardinality(files'),
                                   IF Cardinality(files') # 1 THEN "files" ELSE "file">>, {}),
                          TwLine(is_tty, "blank", <<>>, {})>>
  /\ hist' = Append(hist, [kind |-> "collection_finish", items |-> items])
  /\ UNCHANGED <<is_tty, current_file, failures, collection_errors, stats,
                 exitstatus, spinner_index, raised>>

\* CollectStats without the increment of "error"
CollectStatsNoIncrement(st, report) == st

\* CollectStats that counts every collect report as an error
CollectStatsCountsEveryReport(st, report) == [st EXCEPT !["error"] = @ + 1]

\* the counters after pytest_collectreport
CollectStats(st, report) ==
  IF report.failed THEN [st EXCEPT !["error"] = @ + 1] ELSE st

pytest_collectreport(report) ==
  /\ Deliverable
  /\ stats' = CollectStats(stats, report)
  /\ collection_errors' = IF report.failed
                          THEN Append(collection_errors, <<report.fspath, report.summary>>)
                          ELSE collection_errors
  /\ LET rp == _render_progress(stats', "collecting", FALSE)
     IN  /\ out' = out \o rp.wrote
         /\ spinner_index' = rp.spinner_index
         /\ last_progress_len' = rp.last_progress_len
  /\ hist' = Append(hist, [kind |-> "collect_report", report |-> report])
  /\ UNCHANGED <<is_tty, collected, files, current_file, failures, exitstatus,
                 spinner_active, raised>>

pytest_runtest_logreport(report) ==
  /\ Deliverable
  /\ hist' = Append(hist, [kind |-> "test_report", report |-> report])
  /\ IF report.when \notin Phases
     THEN UNCHANGED <<stats, out, current_file, failures>>
     ELSE LET c  == Classify(stats, report)
              pr == IF c.status # ""
                    THEN _print_test_result(report.path, report.name, c.status)
                    ELSE [wrote |-> <<>>, current_file |-> current_file]
          IN  /\ stats' = c.stats
              /\ out' = out \o pr.wrote
              /\ current_file' = pr.current_file
              /\ failures' = IF report.outcome = "failed"
                             THEN Append(failures, report) ELSE failures
  /\ UNCHANGED <<is_tty, collected, files, collection_errors, exitstatus,
                 spinner_index, last_progress_len, spinner_active, raised>>

\* lines 104-108 once the failures section has yielded rf: the collection
\* errors and the summary follow unless rf raised
PostMortemAfter(rf, errs, st, exit) ==
  IF rf.exc # "" THEN rf
  ELSE [exc |-> "",
        wrote |-> rf.wrote
                    \o (IF errs # <<>> THEN _render_collection_errors(errs) ELSE <<>>)
                    \o _render_summary(st, exit)]

\* the post-mortem of pytest_sessionfinish (lines 104-108): [exc, wrote]
PostMortem(fs, errs, st, exit) ==
  PostMortemAfter(IF fs # <<>> THEN _render_failures(fs) ELSE [exc |-> "", wrote |-> <<>>],
                  errs, st, exit)

pytest_sessionfinish(exit) ==
  /\ Deliverable
  /\ exitstatus' = exit
  /\ spinner_active' = FALSE
  /\ last_progress_len' = _clear_spinner(last_progress_len, TRUE).last_progress_len
  /\ out' = out \o _clear_spinner(last_progress_len, TRUE).wrote
                \o PostMortem(failures, collection_errors, stats, exit).wrote
  /\ raised' = PostMortem(failures, collection_errors, stats, exit).exc
  /\ hist' = Append(hist, [kind |-> "session_finish", exitstatus |-> exit])
  /\ UNCHANGED <<is_tty, collected, files, current_file, failures,
                 collection_errors, stats, spinner_index>>

\* ------------------------------------------------------------------------
\* Specifications
\* ------------------------------------------------------------------------
\* a whole run: the five event kinds in any order
Next ==
  \/ pytest_sessionstart
  \/ \E items \in ItemLists : pytest_collection_finish(items)
  \/ \E r \in CollectReports : pytest_collectreport(r)
  \/ \E r \in RunReports : pytest_runtest_logreport(r)
  \/ \E e \in ExitStatuses : pytest_sessionfinish(e)

Spec == Init /\ [][Next]_vars

\* a sequence of test_report events only
NextReports == \E r \in Reports : pytest_runtest_logreport(r)

SpecReports == Init /\ [][NextReports]_vars

\* the post-mortem over every kind of buffered failure record
NextPost ==
  \/ \E r \in FailureReports : pytest_runtest_logreport(r)
  \/ \E r \in CollectReports : pytest_collectreport(r)
  \/ \E e \in ExitStatuses : pytest_sessionfinish(e)

SpecPost == Init /\ [][NextPost]_vars

\* the snippet loader and renderer applied to each crash location
NextSnippet ==
  \/ \E r \in SnippetReports : pytest_runtest_logreport(r)
  \/ \E e \in ExitStatuses : pytest_sessionfinish(e)

SpecSnippet == Init /\ [][NextSnippet]_vars

\* the explanation heuristic applied to each message
NextExplain ==
  \/ \E r \in ExplainReports : pytest_runtest_logreport(r)
  \/ \E e \in ExitStatuses : pytest_sessionfinish(e)

SpecExplain == Init /\ [][NextExplain]_vars

\* ------------------------------------------------------------------------
\* Vocabulary of the properties
\* ------------------------------------------------------------------------
RecognizedPhases == {"setup", "call", "teardown"}

RecognizedOutcomes == {"passed", "failed", "skipped"}

\* the terminal status the specification assigns to (phase, outcome), "" if none
TerminalStatus(when, outcome) ==
  IF when \notin RecognizedPhases THEN ""
  ELSE IF outcome = "failed" /\ when \in {"setup", "teardown"} THEN "error"
  ELSE IF outcome = "failed" /\ when = "call" THEN "failed"
  ELSE IF outcome = "passed" /\ when = "call" THEN "passed"
  ELSE IF outcome = "skipped" THEN "skipped"
  ELSE ""

\* a step that delivers one event
Delivers(kind) ==
  /\ Len(hist') = Len(hist) + 1
  /\ hist'[Len(hist')].kind = kind

Delivered == hist'[Len(hist')]

HasEvent(kind) == \E i \in 1..Len(hist) : hist[i].kind = kind

\* number of test_report events received that have a terminal status
NTerminal ==
  Cardinality({i \in 1..Len(hist) :
                 /\ hist[i].kind = "test_report"
                 /\ TerminalStatus(hist[i].report.when, hist[i].report.outcome) # ""})

\* number of failed collect_report events received
NFailedCollect ==
  Cardinality({i \in 1..Len(hist) :
                 hist[i].kind = "collect_report" /\ hist[i].report.failed})

\* what a step appended to the output
Appended == SubSeq(out', Len(out) + 1, Len(out'))

\* ------------------------------------------------------------------------
\* C1: over any sequence of test_report events, after every prefix the sum
\* of the status counters is the number of events of the prefix that have a
\* terminal status, and a passed report of the setup or teardown phase
\* changes no counter.
\* ------------------------------------------------------------------------
C1_SumIsTerminalEvents ==
  /\ [](StatsTotal(stats) = NTerminal)
  /\ [][(/\ Delivers("test_report")
         /\ Delivered.report.outcome = "passed"
         /\ Delivered.report.when \in {"setup", "teardown"}) => stats' = stats]_vars

C1_Witness ==
  /\ Len(hist) = 3
  /\ hist[1].report.when = "call" /\ hist[1].report.outcome = "failed"
  /\ hist[2].report.when = "setup" /\ hist[2].report.outcome = "passed"
  /\ hist[3].report.when = "teardown" /\ hist[3].report.outcome = "skipped"
  /\ StatsTotal(stats) = 2

\* ------------------------------------------------------------------------
\* C2 as stated: across a whole run the sum of the status counters is the
\* number of test outcomes dispatched with a terminal status.
\* ------------------------------------------------------------------------
C2_SumIsTestOutcomes == StatsTotal(stats) = NTerminal

\* C2 as amended: across a whole run the sum of the status counters is the
\* number of test outcomes dispatched with a terminal status plus the number
\* of failed collect_report events, and each such test outcome increments
\* exactly one counter by exactly one.
C2_SumIsOutcomesPlusCollectFailures ==
  /\ [](StatsTotal(stats) = NTerminal + NFailedCollect)
  /\ [][(/\ Delivers("test_report")
         /\ TerminalStatus(Delivered.report.when, Delivered.report.outcome) # "")
        => \E k \in StatusNames : stats' = [stats EXCEPT ![k] = @ + 1]]_vars

C2_Witness ==
  /\ NTerminal >= 1
  /\ NFailedCollect >= 1
  /\ HasEvent("session_finish")

\* ------------------------------------------------------------------------
\* C3: test_report increments exactly the counter of the status that
\* (phase, outcome) maps to and leaves the others unchanged: failed in
\* setup/teardown is error, failed in call is failed, passed counts only in
\* call, skipped in any of the three phases is skipped.
\* ------------------------------------------------------------------------
C3_StatusMapping ==
  [][Delivers("test_report") =>
       LET when == Delivered.report.when
           outcome == Delivered.report.outcome
           expected ==
             CASE outcome = "failed" /\ when \in {"setup", "teardown"} -> "error"
               [] outcome = "failed" /\ when = "call" -> "failed"
               [] outcome = "passed" /\ when = "call" -> "passed"
               [] outcome = "skipped" /\ when \in {"setup", "call", "teardown"} -> "skipped"
               [] OTHER -> ""
       IN  IF expected = "" THEN stats' = stats
           ELSE stats' = [stats EXCEPT ![expected] = @ + 1]]_vars

C3_Witness ==
  /\ Len(hist) = 3
  /\ hist[1].kind = "test_report" /\ hist[1].report.when = "setup"
  /\ hist[1].report.outcome = "failed"
  /\ hist[2].kind = "test_report" /\ hist[2].report.when = "call"
  /\ hist[2].report.outcome = "failed"
  /\ hist[3].kind = "test_report" /\ hist[3].report.when = "teardown"
  /\ hist[3].report.outcome = "skipped"
  /\ stats["error"] = 1 /\ stats["failed"] = 1 /\ stats["skipped"] = 1

\* ------------------------------------------------------------------------
\* C4: a test_report whose phase is not setup/call/teardown, or whose
\* outcome is not a recognized status, changes no counter, prints nothing,
\* leaves the current file and the failure buffer as they were.
\* ------------------------------------------------------------------------
C4_UnrecognizedIgnored ==
  [][(/\ Delivers("test_report")
      /\ \/ Delivered.report.when \notin RecognizedPhases
         \/ Delivered.report.outcome \notin RecognizedOutcomes)
     => UNCHANGED <<stats, out, current_file, failures>>]_vars

C4_Witness ==
  /\ Len(hist) = 3
  /\ hist[1].kind = "test_report" /\ hist[1].report.when = "call"
  /\ hist[1].report.outcome = "passed"
  /\ hist[2].kind = "test_report" /\ hist[2].report.when = "collect"
  /\ hist[2].report.outcome = "failed"
  /\ hist[3].kind = "test_report" /\ hist[3].report.when = "call"
  /\ hist[3].report.outcome = "rerun"
  /\ StatsTotal(stats) = 1 /\ failures = <<>> /\ Len(out) = 3

\* ------------------------------------------------------------------------
\* C5: the result label of the summary is the passing label iff the exit
\* status supplied to session_finish is 0, whatever the counters, the
\* failure buffer and the collection errors are, and the summary shows the
\* supplied exit status itself, which is also what the reporter stores.
\* ------------------------------------------------------------------------
C5_LabelFromExitStatusOnly ==
  [][Delivers("session_finish") =>
       LET e == Delivered.exitstatus
           results == SelectSeq(Appended, LAMBDA item : item.kind = "summary_result")
       IN  /\ exitstatus' = e
           /\ \A k \in 1..Len(results) :
                results[k].arg = <<IF e = 0 THEN "PASSED" ELSE "FAILED", e>>]_vars

C5_Witness ==
  /\ Len(hist) = 3
  /\ hist[3].kind = "session_finish" /\ hist[3].exitstatus = 0
  /\ stats["failed"] = 1 /\ stats["error"] = 1
  /\ failures # <<>> /\ collection_errors # <<>>
  /\ \E k \in 1..Len(out) : out[k].kind = "summary_result" /\ out[k].arg = <<"PASSED", 0>>

\* ------------------------------------------------------------------------
\* C6: the reporter never raises into the host run: whatever failure
\* records are buffered, once session_finish has been delivered no exception
\* has escaped and the summary has been printed.
\* ------------------------------------------------------------------------
C6_PostMortemCompletes ==
  HasEvent("session_finish")
    => /\ raised = ""
       /\ \E k \in 1..Len(out) : out[k].kind = "summary_result"

\* ------------------------------------------------------------------------
\* C7: session_finish renders the failures section iff the failure buffer
\* is not empty, then the collection-errors section iff a collection error
\* was recorded, then the summary, in every case exactly once and last.
\* ------------------------------------------------------------------------
SectionKinds == {"failures_title", "collection_errors_title", "summary_result"}

C7_PostMortemOrder ==
  [][Delivers("session_finish") =>
       LET marks == SelectSeq(Appended, LAMBDA item : item.kind \in SectionKinds)
           expected == (IF failures # <<>> THEN <<"failures_title">> ELSE <<>>)
                         \o (IF collection_errors # <<>>
                             THEN <<"collection_errors_title">> ELSE <<>>)
                         \o <<"summary_result">>
       IN  /\ [k \in 1..Len(marks) |-> marks[k].kind] = expected
           /\ Appended[Len(Appended)].kind = "summary_errors"]_vars

\* ------------------------------------------------------------------------
\* C8: when the source file of a snippet cannot be read (missing,
\* permission denied, not decodable), the loader returns no snippet without
\* raising, and the post-mortem goes on: the blocks of the later failures
\* are rendered too.
\* ------------------------------------------------------------------------
HeaderRendered(i) ==
  \E p \in 1..Len(out) : out[p].kind = "failure_header" /\ out[p].arg[1] = i

C8_UnreadableSnippetOmitted ==
  \A i \in 1..Len(failures) :
    (/\ HeaderRendered(i)
     /\ FS[_failure_lineno(failures[i]).path].state # "readable")
    => /\ _load_snippet(_failure_lineno(failures[i]).path,
                        _failure_lineno(failures[i]).lineno, 2).exc = ""
       /\ _load_snippet(_failure_lineno(failures[i]).path,
                        _failure_lineno(failures[i]).lineno, 2).none
       /\ raised # "UnicodeDecodeError"
       /\ \A j \in (i + 1)..Len(failures) : HeaderRendered(j)

\* ------------------------------------------------------------------------
\* C9: every rendered failure entry has a message line, taken from the
\* first source that yields something: the structured crash message, else
\* the first line of the rendered failure text, else the generic
\* "test failed".
\* ------------------------------------------------------------------------
ExpectedMessage(report) ==
  LET text == IF report.has_longreprtext THEN report.longreprtext
              ELSE report.longrepr.str
  IN  IF HasReprcrash(report) /\ Len(report.longrepr.reprcrash.message) > 0
      THEN report.longrepr.reprcrash.message
      ELSE IF Len(Splitlines(text)) > 0 THEN Splitlines(text)[1]
      ELSE S_test_failed

C9_MessageNeverMissing ==
  \A p \in 1..Len(out) :
    out[p].kind = "failure_header"
      => /\ p + 2 <= Len(out)
         /\ out[p + 2].kind = "failure_message"
         /\ out[p + 2].arg = <<ExpectedMessage(failures[out[p].arg[1]])>>

\* ------------------------------------------------------------------------
\* C10: on non-interactive output nothing is written with a carriage
\* return (no progress redraw, no spinner clearing), no line carries a color
\* or bold escape, and the live-line length stays 0.
\* ------------------------------------------------------------------------
C10_PlainWhenNotInteractive ==
  ~is_tty => /\ \A i \in 1..Len(out) : out[i].op = "line" /\ out[i].esc = {}
             /\ last_progress_len = 0

C10_Witness ==
  /\ ~is_tty
  /\ Len(hist) = 3
  /\ hist[1].kind = "session_start"
  /\ hist[2].kind = "collect_report" /\ hist[2].report.failed
  /\ hist[3].kind = "session_finish" /\ hist[3].exitstatus = 1
  /\ \E k \in 1..Len(out) : out[k].kind = "collection_errors_title"

\* ------------------------------------------------------------------------
\* C11: every overwrite of the live progress line pads with exactly
\* max(previous_length - new_length, 0) spaces, previous_length being the
\* length of the last live line still on screen (0 after it was cleared);
\* a clear blanks that whole length, and the reporter's record of the
\* length is always the length on screen.
\* ------------------------------------------------------------------------
\* the length of the last live line still on screen after the output o
RECURSIVE LiveLen(_)
LiveLen(o) ==
  IF o = <<>> THEN 0
  ELSE IF o[Len(o)].kind = "progress" THEN o[Len(o)].arg[2]
  ELSE IF o[Len(o)].kind = "clear" THEN 0
  ELSE LiveLen(SubSeq(o, 1, Len(o) - 1))

C11_PaddingCoversPreviousLine ==
  /\ [](last_progress_len = LiveLen(out))
  /\ [][\A k \in 1..Len(Appended) :
          LET before == LiveLen(SubSeq(out', 1, Len(out) + k - 1))
          IN  /\ Appended[k].kind = "progress"
                   => Appended[k].arg[3] = Max(before - Appended[k].arg[2], 0)
              /\ Appended[k].kind = "clear"
                   => Appended[k].arg[1] = before /\ before > 0]_vars

\* a redraw over a line still on screen, a clear, and a redraw after it
C11_Witness ==
  /\ is_tty
  /\ \E i, j, k \in 1..Len(out) :
       /\ i < j /\ j < k
       /\ out[i].kind = "progress" /\ out[i].arg[3] = 0
       /\ out[j].kind = "clear" /\ out[j].arg[1] = out[i].arg[2]
       /\ out[k].kind = "progress" /\ out[k].arg[3] = 0
       /\ last_progress_len = out[k].arg[2]

\* ------------------------------------------------------------------------
\* C12 as stated: while the spinner is active, a step draws the progress
\* line iff it delivers a collect_report; session_start, collection_finish,
\* test_report and session_finish draw none.
\* ------------------------------------------------------------------------
\* the number of progress lines a step wrote
Redraws == Len(SelectSeq(Appended, LAMBDA item : item.kind = "progress"))

C12_OnlyCollectReportRedraws ==
  [][(is_tty /\ spinner_active /\ Len(hist') = Len(hist) + 1)
       => (Redraws > 0 <=> Delivers("collect_report"))]_vars

\* C12 as amended: a step draws the progress line, once, iff the output is
\* interactive and the step delivers a session_start (spinner active or
\* not) or, while the spinner is active, a collect_report; collection_finish,
\* test_report and session_finish draw none.
C12_RedrawOnCollectReportAndSessionStart ==
  [][Len(hist') = Len(hist) + 1
       => /\ Redraws = (IF /\ is_tty
                           /\ \/ Delivers("session_start")
                              \/ spinner_active /\ Delivers("collect_report")
                        THEN 1 ELSE 0)
          /\ Delivers("collection_finish") \/ Delivers("session_finish")
               => ~spinner_active']_vars

\* a draw by session_start, a redraw by collect_report, none by test_report
C12_Witness ==
  /\ is_tty /\ spinner_active
  /\ Len(hist) = 3
  /\ hist[1].kind = "session_start"
  /\ hist[2].kind = "collect_report"
  /\ hist[3].kind = "test_report"
  /\ Len(SelectSeq(out, LAMBDA item : item.kind = "progress")) = 2
  /\ out[Len(out)].kind = "result"

\* ------------------------------------------------------------------------
\* C13 as stated: the frame index advances by one at every event received
\* while the spinner is active, and never decreases.
\* ------------------------------------------------------------------------
C13_AdvancesPerEvent ==
  [][/\ (is_tty /\ spinner_active /\ Len(hist') = Len(hist) + 1)
          => spinner_index' = spinner_index + 1
     /\ spinner_index' >= spinner_index]_vars

\* the progress lines written so far
ProgressWrites == SelectSeq(out, LAMBDA item : item.kind = "progress")

\* C13 as amended: the frame index advances by one at every drawing of the
\* progress line (a session_start on an interactive terminal, a
\* collect_report while the spinner is active) and at no other event; the
\* n-th line drawn shows frame (n - 1) mod 10 of the cyclic sequence; the
\* index never decreases.
C13_AdvancesPerRedraw ==
  /\ [](/\ spinner_index = Len(ProgressWrites)
        /\ \A n \in 1..Len(ProgressWrites) :
             ProgressWrites[n].arg[1] = (n - 1) % SpinnerFrames)
  /\ [][/\ Len(hist') = Len(hist) + 1
             => spinner_index' = spinner_index
                  + (IF /\ is_tty
                        /\ \/ Delivers("session_start")
                           \/ spinner_active /\ Delivers("collect_report")
                     THEN 1 ELSE 0)
        /\ spinner_index' >= spinner_index]_vars

\* the frame sequence has wrapped around, and a test_report received while
\* the spinner was active left the frame where it was
C13_Witness ==
  /\ is_tty /\ spinner_active
  /\ spinner_index = SpinnerFrames + 1
  /\ ProgressWrites[SpinnerFrames].arg[1] = SpinnerFrames - 1
  /\ ProgressWrites[SpinnerFrames + 1].arg[1] = 0
  /\ hist[Len(hist)].kind = "test_report"

\* ------------------------------------------------------------------------
\* C14: over any sequence of test_report events, a report with a terminal
\* status prints a file header (a blank line, then the path) before its
\* result line iff its file differs from the file of the previous report
\* with a terminal status, or there is none; a report with no status
\* prints nothing and does not break the run of its neighbours.  Hence one
\* header per maximal contiguous run of outcomes of one file.
\* ------------------------------------------------------------------------
\* the file of the last event of h that had a terminal status
RECURSIVE LastOutcomeFile(_)
LastOutcomeFile(h) ==
  IF h = <<>> THEN NoFile
  ELSE IF /\ h[Len(h)].kind = "test_report"
          /\ TerminalStatus(h[Len(h)].report.when, h[Len(h)].report.outcome) # ""
  THEN h[Len(h)].report.path
  ELSE LastOutcomeFile(SubSeq(h, 1, Len(h) - 1))

\* the number of maximal contiguous runs of outcomes of one file in h
RECURSIVE FileRuns(_)
FileRuns(h) ==
  IF h = <<>> THEN 0
  ELSE LET e == h[Len(h)]
           before == SubSeq(h, 1, Len(h) - 1)
       IN  FileRuns(before)
             + (IF /\ e.kind = "test_report"
                   /\ TerminalStatus(e.report.when, e.report.outcome) # ""
                   /\ LastOutcomeFile(before) # e.report.path
                THEN 1 ELSE 0)

C14_HeaderOncePerFileRun ==
  /\ [](Len(SelectSeq(out, LAMBDA item : item.kind = "file_header")) = FileRuns(hist))
  /\ [][Delivers("test_report") =>
          LET r == Delivered.report
          IN  IF TerminalStatus(r.when, r.outcome) = "" THEN Appended = <<>>
              ELSE IF LastOutcomeFile(hist) # r.path
              THEN /\ Len(Appended) = 3
                   /\ Appended[1].kind = "blank"
                   /\ Appended[2].kind = "file_header" /\ Appended[2].arg = <<r.path>>
                   /\ Appended[3].kind = "result"
              ELSE /\ Len(Appended) = 1
                   /\ Appended[1].kind = "result"]_vars

\* two outcomes of one file around a report of another file that has no
\* status: one header
C14_Witness ==
  /\ Len(hist) = 3
  /\ hist[1].kind = "test_report" /\ hist[1].report.path = "tests/test_a.py"
  /\ TerminalStatus(hist[1].report.when, hist[1].report.outcome) # ""
  /\ hist[2].kind = "test_report" /\ hist[2].report.path = "tests/test_b.py"
  /\ TerminalStatus(hist[2].report.when, hist[2].report.outcome) = ""
  /\ hist[3].kind = "test_report" /\ hist[3].report.path = "tests/test_a.py"
  /\ TerminalStatus(hist[3].report.when, hist[3].report.outcome) # ""
  /\ Len(SelectSeq(out, LAMBDA item : item.kind = "file_header")) = 1
  /\ Len(SelectSeq(out, LAMBDA item : item.kind = "result")) = 2

\* ------------------------------------------------------------------------
\* C15: for a readable file of n lines, a target line L >= 1 and a radius r,
\* the snippet loader returns exactly the lines max(1, L-r) .. min(n, L+r),
\* in order, each with its one-based number and its text without the
\* newline; the renderer (radius 2) prints them under the location line and
\* marks the line numbered L and no other.
\* ------------------------------------------------------------------------
ReadableFiles == {p \in DOMAIN FS : FS[p].state = "readable"}

\* the text of line i of file p, without its newline
LineText(p, i) == SelectSeq(FS[p].lines[i], LAMBDA c : c # NL)

\* lines lo..hi of file p, numbered
Window(p, lo, hi) == [k \in 1..Max(hi - lo + 1, 0) |-> <<lo + k - 1, LineText(p, lo + k - 1)>>]

\* the block after a printed location line is the window of radius 2
\* around the location, the target line marked
RenderedWindow(q) ==
  LET p  == out[q].arg[1]
      L  == out[q].arg[2]
      lo == Max(1, L - 2)
      hi == Min(Len(FS[p].lines), L + 2)
  IN  /\ hi >= lo
      /\ q + (hi - lo) + 2 <= Len(out)
      /\ \A k \in 0..(hi - lo) :
           /\ out[q + 1 + k].kind = "snippet_line"
           /\ out[q + 1 + k].arg = <<IF lo + k = L THEN "pointer" ELSE "space",
                                     lo + k, LineText(p, lo + k)>>
      /\ out[q + (hi - lo) + 2].kind = "blank"

C15_SnippetWindow ==
  /\ \A p \in ReadableFiles, L \in 1..MaxLineno, r \in 0..MaxContext :
       _load_snippet(p, L, r)
         = [exc |-> "", none |-> FALSE,
            lines |-> Window(p, Max(1, L - r), Min(Len(FS[p].lines), L + r))]
  /\ \A q \in 1..Len(out) :
       /\ out[q].kind = "snippet_location" => RenderedWindow(q)
       /\ out[q].kind = "failure_header"
            => LET loc == _failure_lineno(failures[out[q].arg[1]])
               IN  (FS[loc.path].state = "readable" /\ loc.lineno - 2 <= Len(FS[loc.path].lines))
                     => /\ q + 4 <= Len(out)
                        /\ out[q + 4].kind = "snippet_location"
                        /\ out[q + 4].arg = <<loc.path, loc.lineno>>

\* the ten-line file, target line 5: lines 3 to 7, line 5 marked
C15_Witness ==
  \E q \in 1..Len(out) :
    /\ out[q].kind = "snippet_location" /\ out[q].arg = <<"src/ten.py", 5>>
    /\ q + 6 <= Len(out)
    /\ out[q + 1].arg = <<"space", 3, <<"c">>>>
    /\ out[q + 2].arg = <<"space", 4, <<"d">>>>
    /\ out[q + 3].arg = <<"pointer", 5, <<"e">>>>
    /\ out[q + 4].arg = <<"space", 6, <<"f">>>>
    /\ out[q + 5].arg = <<"space", 7, <<"g">>>>
    /\ out[q + 6].kind = "blank"
    /\ _load_snippet("src/ten.py", 5, 2).lines
         = << <<3, <<"c">>>>, <<4, <<"d">>>>, <<5, <<"e">>>>, <<6, <<"f">>>>, <<7, <<"g">>>> >>

\* ------------------------------------------------------------------------
\* Vocabulary of the properties of rendered failure entries
\* ------------------------------------------------------------------------
\* the position after the entry whose header is at position p
EntryEnd(p) ==
  SetMin({q \in (p + 1)..Len(out) :
            out[q].kind \in {"failure_header", "collection_errors_title", "summary_result"}}
         \cup {Len(out) + 1})

\* the items of the entry whose header is at position p
Entry(p) == SubSeq(out, p + 1, EntryEnd(p) - 1)

\* the explanation lines shown in the entry whose header is at position p
ExplanationShown(p) ==
  LET items == SelectSeq(Entry(p), LAMBDA item : item.kind = "explanation_line")
  IN  [k \in 1..Len(items) |-> items[k].arg[1]]

\* the entry whose header is at position p has an explanation block
ExplanationTitleShown(p) ==
  \E k \in 1..Len(Entry(p)) : Entry(p)[k].kind = "explanation_title"

\* the buffered record of the entry whose header is at position p
RecordOf(p) == failures[out[p].arg[1]]

\* ------------------------------------------------------------------------
\* C16: for a crash message "assert L == R" the explanation shown is
\* exactly the two lines "Expected: R" and "Actual: L", and only the line
\* "Expected: R" when L is empty.
\* ------------------------------------------------------------------------
C16_ExpectedThenActual ==
  \A p \in 1..Len(out) :
    (out[p].kind = "failure_header" /\ HasReprcrash(RecordOf(p)))
      => \A l \in AssertLefts, r \in AssertRights :
           RecordOf(p).longrepr.reprcrash.message = AssertMessage(l, r)
             => ExplanationShown(p)
                  = <<<<"E","x","p","e","c","t","e","d",":"," ">> \o r>>
                      \o (IF Len(l) > 0
                          THEN <<<<"A","c","t","u","a","l",":"," ">> \o l>>
                          ELSE <<>>)

\* ------------------------------------------------------------------------
\* C17: for a crash message that contains "did not raise" in any letter
\* case the explanation shown is the single line "Expected <X> to be raised,
\* but none was.", X being the text that follows the phrase in the message,
\* or "expected exception" when that text is empty.
\* ------------------------------------------------------------------------
\* the text that follows the phrase "did not raise", in any letter case, in m
TextAfterDidNotRaise(m) ==
  Strip(Tail_(m, SetMin(Occurrences(Lower(m), S_did_not_raise)) + Len(S_did_not_raise)))

C17_DidNotRaiseLine ==
  \A p \in 1..Len(out) :
    (/\ out[p].kind = "failure_header"
     /\ HasReprcrash(RecordOf(p))
     /\ Contains(Lower(RecordOf(p).longrepr.reprcrash.message), S_did_not_raise))
      => LET x == TextAfterDidNotRaise(RecordOf(p).longrepr.reprcrash.message)
         IN  ExplanationShown(p)
               = <<S_Expected_ \o (IF Len(x) = 0 THEN S_expected_exception ELSE x)
                     \o S_to_be_raised>>

\* ------------------------------------------------------------------------
\* C18: the total of every summary printed by session_finish is the sum
\* of all six status counters and is the sum of the four counts the summary
\* shows (passed, failed, skipped, errors), which are the counters
\* themselves; the expected-failure and unexpected-pass counters are 0 in
\* every reachable state.
\* ------------------------------------------------------------------------
C18_TotalIsSumOfShownCounts ==
  /\ [](stats["xfailed"] = 0 /\ stats["xpassed"] = 0)
  /\ [][Delivers("session_finish") =>
          \A k \in 1..Len(Appended) :
            Appended[k].kind = "summary_total"
              => /\ k + 4 = Len(Appended)
                 /\ Appended[k + 1].kind = "summary_passed"
                 /\ Appended[k + 1].arg = <<stats["passed"]>>
                 /\ Appended[k + 2].kind = "summary_failed"
                 /\ Appended[k + 2].arg = <<stats["failed"]>>
                 /\ Appended[k + 3].kind = "summary_skipped"
                 /\ Appended[k + 3].arg = <<stats["skipped"]>>
                 /\ Appended[k + 4].kind = "summary_errors"
                 /\ Appended[k + 4].arg = <<stats["error"]>>
                 /\ Appended[k].arg[1]
                      = Appended[k + 1].arg[1] + Appended[k + 2].arg[1]
                          + Appended[k + 3].arg[1] + Appended[k + 4].arg[1]
                 /\ Appended[k].arg[1]
                      = stats["passed"] + stats["failed"] + stats["skipped"]
                          + stats["error"] + stats["xfailed"] + stats["xpassed"]]_vars

\* 3 passed, 1 failed, 1 skipped, 0 errors, exit status 1: total 5 and the
\* failing label
C18_Witness ==
  /\ Len(hist) = 6
  /\ hist[6].kind = "session_finish" /\ hist[6].exitstatus = 1
  /\ Len(out) >= 6
  /\ out[Len(out) - 5].kind = "summary_result" /\ out[Len(out) - 5].arg = <<"FAILED", 1>>
  /\ out[Len(out) - 4].kind = "summary_total" /\ out[Len(out) - 4].arg = <<5>>
  /\ out[Len(out) - 3].kind = "summary_passed" /\ out[Len(out) - 3].arg = <<3>>
  /\ out[Len(out) - 2].kind = "summary_failed" /\ out[Len(out) - 2].arg = <<1>>
  /\ out[Len(out) - 1].kind = "summary_skipped" /\ out[Len(out) - 1].arg = <<1>>
  /\ out[Len(out)].kind = "summary_errors" /\ out[Len(out)].arg = <<0>>

\* ------------------------------------------------------------------------
\* C19: the failure buffer holds exactly the reports of the test_report
\* events whose terminal status was failed or error, in arrival order; a
\* test_report step renders no part of a failure entry and raises nothing;
\* a session_finish step renders each buffered record once, in buffer order,
\* numbered from 1.
\* ------------------------------------------------------------------------
\* the events of h that are test reports with a failure status
FailureEvents(h) ==
  SelectSeq(h, LAMBDA e : /\ e.kind = "test_report"
                          /\ TerminalStatus(e.report.when, e.report.outcome)
                               \in {"failed", "error"})

LiveKinds == {"blank", "file_header", "result"}

C19_BufferedThenRenderedOnce ==
  /\ [](failures = [k \in 1..Len(FailureEvents(hist)) |-> FailureEvents(hist)[k].report])
  /\ [][Delivers("test_report")
          => /\ \A k \in 1..Len(Appended) : Appended[k].kind \in LiveKinds
             /\ raised' = raised]_vars
  /\ [][Delivers("session_finish")
          => LET headers == SelectSeq(Appended, LAMBDA item : item.kind = "failure_header")
             IN  [k \in 1..Len(headers) |-> headers[k].arg]
                   = [k \in 1..Len(failures) |-> <<k, failures[k].nodeid>>]]_vars

\* ------------------------------------------------------------------------
\* C20: the explanation shown in a failure entry is the heuristic applied
\* to the message chosen by the message step (the crash message, else the
\* first line of the failure text, else the generic message), and the
\* explanation block is absent only when the transformed text is empty.
\* ------------------------------------------------------------------------
C20_ExplanationOfChosenMessage ==
  \A p \in 1..Len(out) :
    out[p].kind = "failure_header"
      => LET transformed == ExplainSummary(ExpectedMessage(RecordOf(p)))
         IN  /\ ExplanationShown(p) = NonBlank(SplitNL(transformed))
             /\ ExplanationTitleShown(p) <=> Len(transformed) > 0

\* ------------------------------------------------------------------------
\* C21: a failed collect_report increments the error counter by exactly
\* one, changes no other counter and appends exactly one collection-error
\* entry (path, summary); a collect_report that did not fail changes no
\* counter and appends nothing; in every reachable state the collection
\* errors are the failed collect_report events received, in arrival order.
\* ------------------------------------------------------------------------
\* the collect_report events of h that failed
FailedCollectEvents(h) ==
  SelectSeq(h, LAMBDA e : e.kind = "collect_report" /\ e.report.failed)

C21_CollectErrorsAreFailedCollectReports ==
  /\ [](/\ Len(collection_errors) = NFailedCollect
        /\ collection_errors
             = [k \in 1..Len(FailedCollectEvents(hist)) |->
                  <<FailedCollectEvents(hist)[k].report.fspath,
                    FailedCollectEvents(hist)[k].report.summary>>])
  /\ [][Delivers("collect_report")
          => IF Delivered.report.failed
             THEN /\ stats' = [stats EXCEPT !["error"] = @ + 1]
                  /\ Len(collection_errors') = Len(collection_errors) + 1
                  /\ SubSeq(collection_errors', 1, Len(collection_errors)) = collection_errors
                  /\ collection_errors'[Len(collection_errors')]
                       = <<Delivered.report.fspath, Delivered.report.summary>>
             ELSE UNCHANGED <<stats, collection_errors>>]_vars

\* a failed, a passing and another failed collect report: two entries, in
\* arrival order, and an error counter of two
C21_Witness ==
  /\ Len(hist) = 3
  /\ hist[1].kind = "collect_report" /\ hist[1].report.failed
  /\ hist[2].kind = "collect_report" /\ ~hist[2].report.failed
  /\ hist[3].kind = "collect_report" /\ hist[3].report.failed
  /\ hist[1].report.fspath # hist[3].report.fspath
  /\ stats["error"] = 2
  /\ collection_errors = << <<hist[1].report.fspath, hist[1].report.summary>>,
                            <<hist[3].report.fspath, hist[3].report.summary>> >>

\* ------------------------------------------------------------------------
\* C22: collection_finish sets the collected count to the number of items
\* and the file set to the distinct item paths, deactivates the spinner and
\* clears the live line, whose length becomes 0; once a collection_finish
\* or a session_finish has been received the spinner is never active again,
\* and no collect_report or test_report draws the progress line or advances
\* the frame.
\* ------------------------------------------------------------------------
LivePhaseOver == HasEvent("collection_finish") \/ HasEvent("session_finish")

C22_CollectionFinishEndsLivePhase ==
  /\ [](LivePhaseOver => ~spinner_active)
  /\ [][Delivers("collection_finish")
          => /\ collected' = Len(Delivered.items)
             /\ files' = {Delivered.items[i] : i \in 1..Len(Delivered.items)}
             /\ ~spinner_active'
             /\ last_progress_len' = 0
             /\ LiveLen(out') = 0
             /\ (LiveLen(out) > 0) <=> (\E k \in 1..Len(Appended) : Appended[k].kind = "clear")]_vars
  /\ [][(/\ LivePhaseOver
         /\ Delivers("collect_report") \/ Delivers("test_report"))
          => /\ Redraws = 0
             /\ spinner_index' = spinner_index
             /\ last_progress_len' = last_progress_len]_vars
  /\ [][~spinner_active => ~spinner_active']_vars

\* a progress line drawn, cleared by collection_finish, and a collect
\* report after it that draws nothing
C22_Witness ==
  /\ is_tty /\ ~spinner_active
  /\ Len(hist) = 3
  /\ hist[1].kind = "session_start"
  /\ hist[2].kind = "collection_finish" /\ Len(hist[2].items) = 3
  /\ hist[3].kind = "collect_report"
  /\ collected = 3 /\ Cardinality(files) = 2
  /\ Len(ProgressWrites) = 1 /\ spinner_index = 1
  /\ last_progress_len = 0
  /\ \E k \in 1..Len(out) : out[k].kind = "clear"

====
